---- MODULE Spec2Model ----
(***************************************************************************)
(* Model of src/src/main.py: the generator avg_coroutine() (sliding mean   *)
(* of the last three non-zero readings, with a one second lockout after a   *)
(* zero) driven through .send(value).                                       *)
(*                                                                          *)
(* Time is counted in ticks of half a second, so the threshold 1.0 of line  *)
(* 40 is Lockout = 2 ticks.  Readings are small integers; a mean is kept as *)
(* a reduced fraction, so that sum(buffer) / len(buffer) is exact.          *)
(*                                                                          *)
(* The generator is suspended at one of its two yield expressions or is     *)
(* finished:                                                                *)
(*   gen = "recv"  at  value = yield None   (line 26)                       *)
(*   gen = "avg"   at  yield avg            (line 58)                       *)
(*   gen = "done"  after the RuntimeError of line 41 left the body          *)
(* The locals of a finished generator are no longer observable; the model   *)
(* keeps their last values.                                                 *)
(***************************************************************************)
EXTENDS Integers, Sequences, FiniteSets, TLC

VARIABLES buffer, paused, last_zero_time, gen, now, last, recent, allNonZero, zeroAt,
          zeroOutstanding, stored, loop, line

vars == <<buffer, paused, last_zero_time, gen, now, last, recent, allNonZero, zeroAt,
          zeroOutstanding, stored, loop, line>>

(***************************************************************************)
(* History of the sends, kept for the properties only:                      *)
(*   last             the latest send: value, time, outcome, frame before it *)
(*   recent           the last three values sent                             *)
(*   allNonZero       no zero has been sent                                  *)
(*   zeroAt           time of the latest send of a zero, -1 if none          *)
(*   zeroOutstanding  a zero was sent and no later send was answered with a  *)
(*                    mean 1.0 or more after the latest zero                 *)
(*   stored           the last three values for which a mean was returned    *)
(* The read loop of main():                                                  *)
(*   loop  "reading", or how the for loop was left: "eof" or "break"         *)
(*   line  what the latest line read was: "blank", "bad" (float() raised     *)
(*         ValueError) or "num"; "none" before the first line                *)
(***************************************************************************)

(* ---- bounds and constants ---- *)

\* last clock reading the model explores (ticks)
MaxTime == 4

\* the threshold 1.0 of "elapsed < 1.0", in ticks of half a second
Lockout == 2

\* capacity of the window: "len(buffer) > 3"
WindowSize == 3

\* the readings a caller sends
Values == {-1, 0, 1, 2}

(* ---- arithmetic ---- *)

RECURSIVE Sum(_)
Sum(s) == IF s = <<>> THEN 0 ELSE Head(s) + Sum(Tail(s))

Abs(x) == IF x < 0 THEN -x ELSE x

RECURSIVE GCD(_, _)
GCD(a, b) == IF b = 0 THEN a ELSE GCD(b, a % b)

\* the last min(Len(s), n) elements of s, in order
LastN(s, n) == IF Len(s) <= n THEN s ELSE SubSeq(s, Len(s) - n + 1, Len(s))

(* ---- outcomes of a send ---- *)

\* send returned None
NoResult == [kind |-> "none", num |-> 0, den |-> 0]

\* send returned the number num / den (den > 0, reduced)
MeanResult(s, n) ==
    LET g == GCD(Abs(s), n)
    IN  [kind |-> "mean", num |-> s \div g, den |-> n \div g]

\* send raised RuntimeError; num is the elapsed time in ticks
LockoutViolation(elapsed) == [kind |-> "error", num |-> elapsed, den |-> 0]

\* send raised StopIteration
Stopped == [kind |-> "stop", num |-> 0, den |-> 0]

(* ---- the body of avg_coroutine ---- *)

\* the generator's frame
Frame == [buffer |-> buffer, paused |-> paused,
          last_zero_time |-> last_zero_time, gen |-> gen]

\* lines 48-49: if len(buffer) > 3: buffer.pop(0)
Evict_Off(buf) == buf

Evict_Newest(buf) == IF Len(buf) > WindowSize THEN SubSeq(buf, 1, WindowSize) ELSE buf

Evict(buf) == IF Len(buf) > WindowSize THEN Tail(buf) ELSE buf

\* lines 46-49: a non-zero value is appended, the oldest entry evicted
Store_PositiveOnly(buf, v) == IF v > 0 THEN Evict(Append(buf, v)) ELSE buf

Store(buf, v) == IF v # 0 THEN Evict(Append(buf, v)) ELSE buf

\* lines 52-55: None for an empty buffer, else sum(buffer) / len(buffer)
Average(buf) == IF Len(buf) = 0 THEN NoResult ELSE MeanResult(Sum(buf), Len(buf))

\* lines 30-35: a zero pauses the coroutine, records the time and loops back
\* to "value = yield None", which hands None to the sender
OnZero_Stored(f, t) ==
    [frame  |-> [f EXCEPT !.buffer = Append(f.buffer, 0), !.paused = TRUE,
                          !.last_zero_time = t, !.gen = "recv"],
     result |-> NoResult]

OnZero_FallsThrough(f, t) ==
    [frame  |-> [f EXCEPT !.paused = TRUE, !.last_zero_time = t, !.gen = "avg"],
     result |-> NoResult]

OnZero(f, t) ==
    [frame  |-> [f EXCEPT !.paused = TRUE, !.last_zero_time = t, !.gen = "recv"],
     result |-> NoResult]

\* line 40: elapsed < 1.0
TooSoon_Early(elapsed) == elapsed < Lockout - 1

TooSoon(elapsed) == elapsed < Lockout

\* lines 45-58: store the value, compute the mean, suspend at "yield avg"
Normal_StaleAverage(f, v) ==
    [frame  |-> [f EXCEPT !.buffer = Store(f.buffer, v), !.gen = "avg"],
     result |-> Average(f.buffer)]

Normal(f, v) ==
    LET buf == Store(f.buffer, v)
    IN  [frame  |-> [f EXCEPT !.buffer = buf, !.gen = "avg"],
         result |-> Average(buf)]

\* lines 26-58: the generator resumed at "value = yield None" with value v,
\* time.monotonic() reading t
ResumeAtReceive(f, v, t) ==
    IF v = 0 THEN OnZero(f, t)
    ELSE IF f.paused
         THEN LET elapsed == t - f.last_zero_time
              IN  IF TooSoon(elapsed)
                  THEN [frame  |-> [f EXCEPT !.gen = "done"],
                        result |-> LockoutViolation(elapsed)]
                  ELSE Normal([f EXCEPT !.paused = FALSE], v)
         ELSE Normal(f, v)

\* lines 58, 24, 26: the generator resumed at "yield avg": the sent value is
\* the value of that yield expression, which nothing reads; the loop goes
\* round to "value = yield None", which hands None to the sender
ResumeAtYieldAvg_Reads(f, v) == Normal(f, v)

ResumeAtYieldAvg(f, v) ==
    [frame |-> [f EXCEPT !.gen = "recv"], result |-> NoResult]

\* a send to a finished generator raises StopIteration
ResumeFinished_Alive(f, v) == [frame |-> [f EXCEPT !.gen = "recv"], result |-> NoResult]

ResumeFinished(f, v) == [frame |-> f, result |-> Stopped]

\* coro.send(v) at clock reading t
SendResult(f, v, t) ==
    CASE f.gen = "recv" -> ResumeAtReceive(f, v, t)
      [] f.gen = "avg"  -> ResumeAtYieldAvg(f, v)
      [] f.gen = "done" -> ResumeFinished(f, v)

(* ---- state machine ---- *)

\* no send has been made yet
NoCall == [value |-> 0, at |-> -1, result |-> NoResult,
           before |-> [buffer |-> <<>>, paused |-> FALSE,
                       last_zero_time |-> 0, gen |-> "recv"]]

\* lines 19-21 and the priming next(coro) of line 70
Init ==
    /\ buffer = <<>>
    /\ paused = FALSE
    /\ last_zero_time = 0
    /\ gen = "recv"
    /\ now = 0
    /\ last = NoCall
    /\ recent = <<>>
    /\ allNonZero = TRUE
    /\ zeroAt = -1
    /\ zeroOutstanding = FALSE
    /\ stored = <<>>
    /\ loop = "reading"
    /\ line = "none"

\* time.monotonic() advances between two sends
Tick ==
    /\ now < MaxTime
    /\ now' = now + 1
    /\ UNCHANGED <<buffer, paused, last_zero_time, gen, last, recent, allNonZero, zeroAt>>
    /\ UNCHANGED <<zeroOutstanding, stored, loop, line>>

\* coro.send(v): the generator runs to its next yield, raise or end
SendCore(v) ==
    LET r == SendResult(Frame, v, now)
    IN  /\ buffer' = r.frame.buffer
        /\ paused' = r.frame.paused
        /\ last_zero_time' = r.frame.last_zero_time
        /\ gen' = r.frame.gen
        /\ last' = [value |-> v, at |-> now, result |-> r.result, before |-> Frame]
        /\ recent' = LastN(Append(recent, v), WindowSize)
        /\ allNonZero' = (allNonZero /\ v # 0)
        /\ zeroAt' = IF v = 0 THEN now ELSE zeroAt
        /\ zeroOutstanding' =
              IF v = 0 THEN TRUE
              ELSE IF r.result.kind = "mean" /\ now - zeroAt >= Lockout THEN FALSE
              ELSE zeroOutstanding
        /\ stored' = IF r.result.kind = "mean"
                      THEN LastN(Append(stored, v), WindowSize)
                      ELSE stored
        /\ UNCHANGED now

\* coro.send(v) by any caller of the coroutine
Send(v) == SendCore(v) /\ UNCHANGED <<loop, line>>

Next == Tick \/ \E v \in Values : Send(v)

Spec == Init /\ [][Next]_vars

(* ---- the read loop of main ---- *)

\* lines 76-78: a blank line is skipped
ReadBlank ==
    /\ loop = "reading"
    /\ line' = "blank"
    /\ UNCHANGED <<buffer, paused, last_zero_time, gen, now, last, recent,
                   allNonZero, zeroAt, zeroOutstanding, stored, loop>>

\* lines 79-83: float() raises ValueError; the line is reported and skipped
ReadUnparsable ==
    /\ loop = "reading"
    /\ line' = "bad"
    /\ UNCHANGED <<buffer, paused, last_zero_time, gen, now, last, recent,
                   allNonZero, zeroAt, zeroOutstanding, stored, loop>>

\* lines 85-101: the parsed value is sent; None, a mean and RuntimeError are
\* printed and the loop goes on, StopIteration is printed and breaks the loop
ReadValue(v) ==
    /\ loop = "reading"
    /\ SendCore(v)
    /\ line' = "num"
    /\ loop' = IF SendResult(Frame, v, now).result.kind = "stop"
               THEN "break" ELSE "reading"

\* line 75: sys.stdin is exhausted
EndOfInput ==
    /\ loop = "reading"
    /\ loop' = "eof"
    /\ UNCHANGED <<buffer, paused, last_zero_time, gen, now, last, recent,
                   allNonZero, zeroAt, zeroOutstanding, stored, line>>

DriverNext ==
    \/ Tick
    \/ ReadBlank
    \/ ReadUnparsable
    \/ \E v \in Values : ReadValue(v)
    \/ EndOfInput

DriverSpec == Init /\ [][DriverNext]_vars

(* ---- types ---- *)

TypeOK ==
    /\ buffer \in Seq(Values)
    /\ paused \in BOOLEAN
    /\ last_zero_time \in 0..MaxTime
    /\ gen \in {"recv", "avg", "done"}
    /\ now \in 0..MaxTime
    /\ zeroAt \in -1..MaxTime
    /\ zeroOutstanding \in BOOLEAN
    /\ stored \in Seq(Values)
    /\ loop \in {"reading", "eof", "break"}
    /\ line \in {"none", "blank", "bad", "num"}

\* some send has been made
Called == last.at >= 0

(* ---- claims ---- *)

\* C1 (sliding correctness): when only non-zero values have been sent, after
\* each send the window is the last min(n,3) of the values sent, in order, and
\* the send returned their arithmetic mean.
C1_SlidingCorrectness ==
    (Called /\ allNonZero) =>
        /\ buffer = recent
        /\ last.result = MeanResult(Sum(recent), Len(recent))

\* C2 (lockout rejection): a non-zero value sent less than 1.0 after the most
\* recent zero was sent is answered with a LockoutViolation.
C2_LockoutRejection ==
    (Called /\ last.value # 0 /\ zeroAt >= 0 /\ last.at - zeroAt < Lockout) =>
        last.result.kind = "error"

\* C3 (a violation has no side effect): after a send was answered with a
\* LockoutViolation, a non-zero value sent 1.0 or more after the zero gives
\* the window and the mean it would have given had the violating send never
\* been made.
C3_ViolationNoSideEffect ==
    [][ ( /\ last.result.kind = "error"
          /\ last' # last
          /\ last'.value # 0
          /\ last'.at - last.before.last_zero_time >= Lockout )
        => ( /\ buffer' = Store(last.before.buffer, last'.value)
             /\ paused' = FALSE
             /\ last'.result = Average(buffer') ) ]_vars

\* C4 (no terminal state): in every reachable state the averager can still
\* take a submission and process it; it is never finished.
C4_NoTerminalState == gen # "done"

\* C5 (zero submission): every zero sent sets paused, records the time of that
\* send in last_zero_time and returns None.
C5_ZeroLocks ==
    (Called /\ last.value = 0) =>
        /\ paused = TRUE
        /\ last_zero_time = last.at
        /\ last.result = NoResult

\* C6 (lockout acceptance): a non-zero value sent 1.0 or more after the most
\* recent zero (1.0 exactly included) clears paused, is appended to the window
\* and the mean of the resulting window is returned.
C6_LockoutAcceptance ==
    (Called /\ last.value # 0 /\ zeroAt >= 0 /\ last.at - zeroAt >= Lockout) =>
        /\ paused = FALSE
        /\ buffer = Store(last.before.buffer, last.value)
        /\ last.result = Average(buffer)
        /\ last.result.kind = "mean"

\* C7 (non-zero readings are accepted): a non-zero value that is not answered
\* with a LockoutViolation is appended to the window and a mean is returned
\* for it, never None.
C7_NonZeroAccepted ==
    (Called /\ last.value # 0 /\ last.result.kind # "error") =>
        /\ last.result.kind = "mean"
        /\ buffer = Store(last.before.buffer, last.value)

\* C8 (only failure): a send fails only with a LockoutViolation, and does so
\* exactly when the value is non-zero, paused is set and less than 1.0 has
\* elapsed since last_zero_time; otherwise it returns None or a mean.
C8_OnlyLockoutViolation ==
    Called =>
        /\ last.result.kind \in {"none", "mean", "error"}
        /\ last.result.kind = "error" <=>
              ( /\ last.value # 0
                /\ last.before.paused
                /\ last.at - last.before.last_zero_time < Lockout )

\* C9 (zero exclusion): the window never holds a 0, and a send of 0 leaves the
\* window as it was before that send.
C9_ZeroExclusion ==
    /\ \A i \in 1..Len(buffer) : buffer[i] # 0
    /\ (Called /\ last.value = 0) => buffer = last.before.buffer

\* a zero was processed (it paused the coroutine) while the window held values
C9_Witness ==
    /\ Called /\ last.value = 0 /\ last.before.gen = "recv"
    /\ paused /\ Len(buffer) > 0

\* C10 (window bound): the window never holds more than 3 values.
C10_WindowBound == Len(buffer) <= WindowSize

\* a value was stored into a full window, evicting the oldest entry
C10_Witness ==
    /\ Called /\ last.result.kind = "mean"
    /\ Len(last.before.buffer) = WindowSize
    /\ buffer = Tail(last.before.buffer) \o <<last.value>>

\* C11 (meaning of locked): paused is set exactly when a zero has been sent
\* and no later send has been accepted 1.0 or more after the latest zero.
C11_LockedIffZeroOutstanding == paused <=> zeroOutstanding

\* C12 (unlock only by an accepted value): paused goes from set to clear only
\* in a send of a non-zero value, 1.0 or more after last_zero_time, and that
\* same step appends the value to the window and returns a mean; the clock
\* alone, a zero and a rejected send never clear it.
C12_UnlockOnlyOnAccept ==
    [][ (paused /\ ~paused')
        => ( /\ last' # last
             /\ last'.value # 0
             /\ last'.at = now
             /\ now - last_zero_time >= Lockout
             /\ buffer' = Store(buffer, last'.value)
             /\ Len(buffer') > 0
             /\ buffer'[Len(buffer')] = last'.value
             /\ last'.result.kind = "mean" ) ]_vars

\* a paused coroutine was resumed by an accepted value, at the boundary 1.0
C12_Witness ==
    /\ Called /\ last.before.paused /\ ~paused
    /\ last.at - last.before.last_zero_time = Lockout
    /\ last.result.kind = "mean"

\* C13 (a zero is never rejected while locked): a zero sent while paused is
\* set, at any elapsed time, returns None and moves last_zero_time to the time
\* of that send.
C13_ZeroWhileLocked ==
    (Called /\ last.value = 0 /\ last.before.paused) =>
        /\ last.result = NoResult
        /\ paused
        /\ last_zero_time = last.at

\* C14 (driver survives a violation): the read loop is left only at the end
\* of the input; a LockoutViolation and the lines after it never end it.
C14_LoopEndsOnlyAtEof == loop \in {"reading", "eof"}

\* C15 (the mean returned): whenever a send returns a number, the window is
\* not empty and the number is sum(window) / len(window) of the window as it
\* stands after that send's append and eviction.
C15_MeanOfWindow ==
    (Called /\ last.result.kind = "mean") =>
        /\ Len(buffer) > 0
        /\ last.result.den > 0
        /\ last.result.num * Len(buffer) = Sum(buffer) * last.result.den
        /\ buffer[Len(buffer)] = last.value

\* a full window slid by one and the mean returned is not a whole number
C15_Witness ==
    /\ Called /\ last.result.kind = "mean"
    /\ Len(last.before.buffer) = WindowSize
    /\ last.result.den > 1

\* C16 (first in, first out): the window is, in order, the last min(k,3) of
\* the k values for which a mean was returned, and a send either leaves the
\* window alone, appends to it, or appends and drops its oldest entry.
C16_FifoEviction ==
    /\ buffer = stored
    /\ Called =>
          \/ buffer = last.before.buffer
          \/ /\ Len(last.before.buffer) < WindowSize
             /\ buffer = Append(last.before.buffer, last.value)
          \/ /\ Len(last.before.buffer) = WindowSize
             /\ buffer = Append(Tail(last.before.buffer), last.value)

\* the oldest of three different stored values was evicted by a fourth
C16_Witness ==
    /\ Called /\ last.result.kind = "mean"
    /\ Len(last.before.buffer) = WindowSize
    /\ last.before.buffer[1] # last.before.buffer[2]
    /\ last.before.buffer[2] # last.before.buffer[3]
    /\ last.value # last.before.buffer[3]
    /\ buffer[1] = last.before.buffer[2]
    /\ buffer[WindowSize] = last.value

C19_PausedAtReceive ==
    /\ paused => gen # "avg"
    /\ (Called /\ last.before.paused) => last.before.gen # "avg"
    /\ ( /\ Called /\ last.before.paused /\ last.value # 0
         /\ last.at - last.before.last_zero_time < Lockout )
       => \/ last.before.gen = "recv" /\ last.result.kind = "error"
          \/ last.before.gen = "done" /\ last.result = Stopped

\* a non-zero value sent to the paused, live generator too early was refused
C19_Witness ==
    /\ Called /\ last.before.paused /\ last.before.gen = "recv"
    /\ last.value # 0 /\ Len(last.before.buffer) > 0
    /\ last.result.kind = "error"

\* C20 (yield avg never yields None): the generator suspended at "yield avg"
\* has a non-empty buffer and handed a number to the sender; every None a
\* sender sees comes from "value = yield None", after a processed zero or a
\* discarded send.
C20_YieldAvgNeverNone ==
    /\ gen = "avg" => (Len(buffer) > 0 /\ last.result.kind = "mean")
    /\ (Called /\ last.result = NoResult) =>
          /\ gen = "recv"
          /\ \/ last.before.gen = "recv" /\ last.value = 0
             \/ last.before.gen = "avg"

\* the first value stored into an empty buffer was negative and gave a mean
C20_Witness ==
    /\ gen = "avg" /\ last.before.buffer = <<>>
    /\ last.value < 0 /\ last.result.kind = "mean"

====
